---- MODULE Spec2Model ----
(***************************************************************************)
(* Model of src/src/cdksubnetroutetable.ts: the SubnetWithRouteTable       *)
(* construct.  The state is the construct's list of child resources (the   *)
(* declaration graph it has emitted into its scope), the props it was      *)
(* built from, and the outcome (return or throw) of the last call.         *)
(*                                                                         *)
(* Naming: the specification's define is the constructor, addRoutes is     *)
(* addRouteTableEntries, toLabelList is convertTagsToCdkFormat, networkId  *)
(* / addressBlock / zone are vpcId / cidrBlock / availabilityZone, and the *)
(* target kind transit-gateway is the code's 'tgw', whose target field     *)
(* (gateway-attachment-id) is transitGatewayId.                            *)
(***************************************************************************)
EXTENDS Integers, Sequences, FiniteSets, TLC

VARIABLES
  status,    \* "init": not constructed; "built": constructor returned; "failed": it threw
  props,     \* the props the constructor was called with
  children,  \* the resources emitted so far, in creation order
  error,     \* the outcome of the last call: NoError or the Error thrown
  lastOp,    \* the last operation called on the construct
  pass,      \* the number of the current synthesis pass
  prev       \* what the constructor produced in the previous synthesis pass

vars == <<status, props, children, error, lastOp, pass, prev>>

----------------------------------------------------------------------------
(* Bounds of the model *)

MaxRoutes == 2
MaxTags == 2
MaxPasses == 2

----------------------------------------------------------------------------
(* JavaScript values *)

\* An optional property that was not given.
Undefined == [defined |-> FALSE]

Defined(v) == [defined |-> TRUE, value |-> v]

\* The outcome of a call: a returned value or a thrown Error.
Return(v) == [threw |-> FALSE, message |-> "", value |-> v]

Throw(msg, v) == [threw |-> TRUE, message |-> msg, value |-> v]

NoError == [threw |-> FALSE, message |-> ""]

Error(msg) == [threw |-> TRUE, message |-> msg]

SeqUpTo(S, n) == UNION {[1..k -> S] : k \in 0..n}

----------------------------------------------------------------------------
(* Inputs *)

VpcIds == {"", "vpc-1"}

CidrBlocks == {"", "10.0.1.0/24"}

AvailabilityZones == {"", "us-east-1a"}

\* The four members of RouteEntry.targetType.
TargetTypes == {"tgw", "vpc-endpoint", "internet-gateway", "nat-gateway"}

\* A value outside the union, as an untyped caller can pass it.
OtherTargetTypes == {"vpn-gateway"}

RouteEntry ==
  [destinationCidr : {"0.0.0.0/0"},
   targetType : TargetTypes \cup OtherTargetTypes,
   targetId : {"igw-123"}]
    \cup {[destinationCidr |-> "10.1.0.0/16", targetType |-> "nat-gateway",
           targetId |-> "nat-456"]}

\* The routeEntries the constructor is given.
RouteEntryLists == SeqUpTo(RouteEntry, MaxRoutes)

\* The entries later calls of addRouteTableEntries are given: one of each
\* outcome (two supported kinds with different destinations, one unsupported).
AddedEntry ==
  {[destinationCidr |-> "0.0.0.0/0", targetType |-> "internet-gateway",
    targetId |-> "igw-123"],
   [destinationCidr |-> "10.1.0.0/16", targetType |-> "nat-gateway",
    targetId |-> "nat-456"],
   [destinationCidr |-> "0.0.0.0/0", targetType |-> "vpn-gateway",
    targetId |-> "igw-123"]}

AddedEntryLists == SeqUpTo(AddedEntry, MaxRoutes)

TagKeys == {"env", "team"}

TagValues == {"prod", "net"}

\* A { [key: string]: string } object: its own properties in property order,
\* each key once.  (Keys here are not integer-like, so property order is
\* insertion order.)
TagObjects ==
  {t \in SeqUpTo(TagKeys \X TagValues, MaxTags) :
     \A i, j \in 1..Len(t) : i # j => t[i][1] # t[j][1]}

CustomRouteTableProps(vpc, cidr, az, routes, stags, rtags) ==
  [vpcId |-> vpc, cidrBlock |-> cidr, availabilityZone |-> az,
   routeEntries |-> routes, subnetTags |-> stags, routeTableTags |-> rtags]

\* Props that vary the required strings.
RequiredProps ==
  {CustomRouteTableProps(v, c, a, r, Undefined, Undefined) :
     v \in VpcIds, c \in CidrBlocks, a \in AvailabilityZones,
     r \in {Undefined, Defined(<<>>)}}

\* Props that vary the route entries.
RouteProps ==
  {CustomRouteTableProps("vpc-1", "10.0.1.0/24", "us-east-1a", Defined(r),
                         Defined(<<<<"env", "prod">>>>), Undefined) :
     r \in RouteEntryLists}

\* Props that vary the tags.
TagProps ==
  {CustomRouteTableProps("vpc-1", "10.0.1.0/24", "us-east-1a", Undefined, s, t) :
     s \in {Undefined} \cup {Defined(o) : o \in TagObjects},
     t \in {Undefined} \cup {Defined(o) : o \in TagObjects}}

----------------------------------------------------------------------------
(* The construct tree *)

\* new X(this, id, properties): the resource becomes a child of the construct.
\* The Construct base class keeps the ids of a scope's children unique: it
\* throws on a second child of the same id and the scope stays as it was.
NewChild(kids, id, type, properties) ==
  IF \E i \in 1..Len(kids) : kids[i].id = id
    THEN Throw("There is already a Construct with name '" \o id \o "'", kids)
    ELSE Return(Append(kids, [id |-> id, type |-> type, properties |-> properties]))

\* resource.ref: a reference to the resource of that id.
Ref(id) == [Ref |-> id]

----------------------------------------------------------------------------
(* convertTagsToCdkFormat *)

\* Mutant: an empty object is taken for an absent one (!tags || no keys).
convertTagsEmptyAsUndefined(tags) ==
  IF ~tags.defined \/ Len(tags.value) = 0
    THEN Undefined
    ELSE Defined([i \in 1..Len(tags.value) |->
                    [key |-> tags.value[i][1], value |-> tags.value[i][2]]])

convertTagsToCdkFormat(tags) ==
  IF ~tags.defined
    THEN Undefined
    ELSE Defined([i \in 1..Len(tags.value) |->
                    [key |-> tags.value[i][1], value |-> tags.value[i][2]]])

----------------------------------------------------------------------------
(* resolveTarget *)

\* Mutant: the default case returns no target instead of throwing.
resolveTargetNoDefault(entry) ==
  CASE entry.targetType = "tgw" -> Return([transitGatewayId |-> entry.targetId])
    [] entry.targetType = "vpc-endpoint" -> Return([vpcEndpointId |-> entry.targetId])
    [] entry.targetType = "internet-gateway" -> Return([gatewayId |-> entry.targetId])
    [] entry.targetType = "nat-gateway" -> Return([natGatewayId |-> entry.targetId])
    [] OTHER -> Return(<< >>)

\* Mutant: a NAT gateway's id is put in the gatewayId field.
resolveTargetNatAsGateway(entry) ==
  CASE entry.targetType = "tgw" -> Return([transitGatewayId |-> entry.targetId])
    [] entry.targetType = "vpc-endpoint" -> Return([vpcEndpointId |-> entry.targetId])
    [] entry.targetType = "internet-gateway" -> Return([gatewayId |-> entry.targetId])
    [] entry.targetType = "nat-gateway" -> Return([gatewayId |-> entry.targetId])
    [] OTHER -> Throw("Unsupported target type: " \o entry.targetType, << >>)

resolveTarget(entry) ==
  CASE entry.targetType = "tgw" -> Return([transitGatewayId |-> entry.targetId])
    [] entry.targetType = "vpc-endpoint" -> Return([vpcEndpointId |-> entry.targetId])
    [] entry.targetType = "internet-gateway" -> Return([gatewayId |-> entry.targetId])
    [] entry.targetType = "nat-gateway" -> Return([natGatewayId |-> entry.targetId])
    [] OTHER -> Throw("Unsupported target type: " \o entry.targetType, << >>)

----------------------------------------------------------------------------
(* addRouteTableEntries *)

\* Mutant: the index is left out of the Route's id.
RouteIdNoIndex(index) == "Route"

RouteId(index) == "Route" \o ToString(index)

\* The properties object { routeTableId, destinationCidrBlock, ...target }.
CfnRouteProps(entry, target) ==
  target @@ [routeTableId |-> Ref("RouteTable"),
             destinationCidrBlock |-> entry.destinationCidr]

\* routeEntries.forEach((entry, index) => ...) from index on: the arguments
\* of new CfnRoute are evaluated first, so resolveTarget throws before the
\* Route is made; a throw ends the loop and keeps what was made before it.
RECURSIVE forEach(_, _, _)
forEach(kids, routeEntries, index) ==
  IF index >= Len(routeEntries)
    THEN Return(kids)
    ELSE LET entry == routeEntries[index + 1]
             target == resolveTarget(entry)
         IN  IF target.threw
               THEN Throw(target.message, kids)
               ELSE LET made == NewChild(kids, RouteId(index), "AWS::EC2::Route",
                                         CfnRouteProps(entry, target.value))
                    IN  IF made.threw
                          THEN made
                          ELSE forEach(made.value, routeEntries, index + 1)

addRouteTableEntries(routeEntries) ==
  /\ status = "built"
  /\ LET r == forEach(children, routeEntries, 0)
     IN  /\ children' = r.value
         /\ error' = [threw |-> r.threw, message |-> r.message]
  /\ lastOp' = "addRouteTableEntries"
  /\ UNCHANGED <<status, props, pass, prev>>

----------------------------------------------------------------------------
(* constructor *)

\* Mutant: public IPs are mapped on launch.
CfnSubnetPropsPublicIp(p) ==
  [vpcId |-> p.vpcId,
   cidrBlock |-> p.cidrBlock,
   availabilityZone |-> p.availabilityZone,
   mapPublicIpOnLaunch |-> TRUE,
   tags |-> convertTagsToCdkFormat(p.subnetTags)]

CfnSubnetProps(p) ==
  [vpcId |-> p.vpcId,
   cidrBlock |-> p.cidrBlock,
   availabilityZone |-> p.availabilityZone,
   mapPublicIpOnLaunch |-> FALSE,
   tags |-> convertTagsToCdkFormat(p.subnetTags)]

CfnRouteTableProps(p) ==
  [vpcId |-> p.vpcId,
   tags |-> convertTagsToCdkFormat(p.routeTableTags)]

\* Mutant: the two references are exchanged.
AssociationPropsExchanged ==
  [subnetId |-> Ref("RouteTable"), routeTableId |-> Ref("Subnet")]

CfnSubnetRouteTableAssociationProps ==
  [subnetId |-> Ref("Subnet"), routeTableId |-> Ref("RouteTable")]

\* The constructor's body on a fresh construct: the three resources, then
\* the initial route entries if given.  A throw leaves what was made so far.
construct(p) ==
  LET subnet == NewChild(<< >>, "Subnet", "AWS::EC2::Subnet", CfnSubnetProps(p))
      routeTable == NewChild(subnet.value, "RouteTable", "AWS::EC2::RouteTable",
                             CfnRouteTableProps(p))
      assoc == NewChild(routeTable.value, "SubnetRouteTableAssoc",
                        "AWS::EC2::SubnetRouteTableAssociation",
                        CfnSubnetRouteTableAssociationProps)
  IN  IF p.routeEntries.defined
        THEN forEach(assoc.value, p.routeEntries.value, 0)
        ELSE assoc

\* Mutant: the required strings are checked before anything is made.
SubnetWithRouteTableValidating(p) ==
  /\ status = "init"
  /\ LET r == IF p.vpcId = "" \/ p.cidrBlock = "" \/ p.availabilityZone = ""
                THEN Throw("vpcId, cidrBlock and availabilityZone are required", << >>)
                ELSE construct(p)
     IN  /\ children' = r.value
         /\ error' = [threw |-> r.threw, message |-> r.message]
         /\ status' = IF r.threw THEN "failed" ELSE "built"
  /\ props' = p
  /\ lastOp' = "constructor"
  /\ UNCHANGED <<pass, prev>>

\* The orders in which the properties of a tag object can be listed.
TagOrders(tags) ==
  IF ~tags.defined
    THEN {tags}
    ELSE {Defined(o) : o \in {o \in TagObjects :
            {o[i] : i \in 1..Len(o)} = {tags.value[i] : i \in 1..Len(tags.value)}}}

\* Mutant: the subnet's tags are listed in an order that varies from one
\* evaluation to the next.
SubnetWithRouteTableAnyTagOrder(p) ==
  /\ status = "init"
  /\ \E s \in TagOrders(p.subnetTags) :
       LET r == construct([p EXCEPT !.subnetTags = s])
       IN  /\ children' = r.value
           /\ error' = [threw |-> r.threw, message |-> r.message]
           /\ status' = IF r.threw THEN "failed" ELSE "built"
  /\ props' = p
  /\ lastOp' = "constructor"
  /\ UNCHANGED <<pass, prev>>

SubnetWithRouteTable(p) ==
  /\ status = "init"
  /\ LET r == construct(p)
     IN  /\ children' = r.value
         /\ error' = [threw |-> r.threw, message |-> r.message]
         /\ status' = IF r.threw THEN "failed" ELSE "built"
  /\ props' = p
  /\ lastOp' = "constructor"
  /\ UNCHANGED <<pass, prev>>

\* A new synthesis pass: a fresh scope, in which the program is evaluated again.
Resynthesize ==
  /\ lastOp = "constructor"
  /\ pass < MaxPasses
  /\ prev' = [props |-> props, status |-> status, children |-> children,
              error |-> error]
  /\ pass' = pass + 1
  /\ status' = "init"
  /\ props' = Undefined
  /\ children' = << >>
  /\ error' = NoError
  /\ lastOp' = "none"

----------------------------------------------------------------------------
(* Specifications *)

Init ==
  /\ status = "init"
  /\ props = Undefined
  /\ children = << >>
  /\ error = NoError
  /\ lastOp = "none"
  /\ pass = 1
  /\ prev = Undefined

\* One construct: built once, then routes added any number of times.
Next ==
  \/ \E p \in RequiredProps \cup RouteProps : SubnetWithRouteTable(p)
  \/ \E routeEntries \in AddedEntryLists : addRouteTableEntries(routeEntries)

Spec == Init /\ [][Next]_vars

\* The constructor alone, over all the props, evaluated again with the same
\* props in each later synthesis pass.
NextDefine ==
  \/ \E p \in RequiredProps \cup RouteProps \cup TagProps :
       /\ pass > 1 => p = prev.props
       /\ SubnetWithRouteTable(p)
  \/ Resynthesize

SpecDefine == Init /\ [][NextDefine]_vars

----------------------------------------------------------------------------
(* Vocabulary of the properties *)

OfType(kids, type) == SelectSeq(kids, LAMBDA c : c.type = type)

Routes(kids) == OfType(kids, "AWS::EC2::Route")

Subnets(kids) == OfType(kids, "AWS::EC2::Subnet")

RouteTables(kids) == OfType(kids, "AWS::EC2::RouteTable")

Associations(kids) == OfType(kids, "AWS::EC2::SubnetRouteTableAssociation")

\* The four target-reference fields of a Route.
TargetFields == {"transitGatewayId", "vpcEndpointId", "gatewayId", "natGatewayId"}

\* The field each target kind selects.
TargetFieldOf ==
  [k \in TargetTypes |->
     CASE k = "tgw" -> "transitGatewayId"
       [] k = "vpc-endpoint" -> "vpcEndpointId"
       [] k = "internet-gateway" -> "gatewayId"
       [] k = "nat-gateway" -> "natGatewayId"]

AllSupported(routeEntries) ==
  \A i \in 1..Len(routeEntries) : routeEntries[i].targetType \in TargetTypes

\* The route entries of props: none when routeEntries is absent.
EntriesOf(p) == IF p.routeEntries.defined THEN p.routeEntries.value ELSE << >>

SomeRequiredEmpty(p) == p.vpcId = "" \/ p.cidrBlock = "" \/ p.availabilityZone = ""

\* The resources the step from the unprimed to the primed state added.
Emitted == SubSeq(children', Len(children) + 1, Len(children'))

----------------------------------------------------------------------------
(* C1: addRouteTableEntries is an append: on a built construct, a call   *)
(* whose entries all have supported target kinds adds exactly            *)
(* Len(entries) new Routes, with identities that no earlier resource     *)
(* has, and leaves the earlier resources as they were.                   *)
(* This is the claim as stated; the code violates it, because each call  *)
(* numbers its Routes from Route0 again.                                 *)
C1_AddRoutesAppends ==
  [][\A e \in AddedEntryLists :
       (addRouteTableEntries(e) /\ AllSupported(e)) =>
         /\ Len(children') = Len(children) + Len(e)
         /\ SubSeq(children', 1, Len(children)) = children
         /\ \A i \in 1..Len(Emitted) :
              /\ Emitted[i].type = "AWS::EC2::Route"
              /\ \A j \in 1..Len(children) : children[j].id # Emitted[i].id
              /\ \A j \in 1..Len(Emitted) : j # i => Emitted[j].id # Emitted[i].id
    ]_vars

(* C2: when the constructor is given a route entry of an unsupported     *)
(* kind, it has emitted no resource of any kind when the error is        *)
(* raised.  This is the claim as stated; the code violates it, because   *)
(* the Subnet, the RouteTable, the Association and the earlier Routes    *)
(* are made before resolveTarget sees the entry.                         *)
C2_NothingEmittedBeforeError ==
  (lastOp = "constructor" /\ ~AllSupported(EntriesOf(props))) =>
    (error.threw /\ children = << >>)

\* What C3 says of a call that was handed the route entries e.
C3_Rejected(e) ==
  \A k \in 1..Len(e) :
    e[k].targetType \notin TargetTypes =>
      /\ resolveTarget(e[k]).threw
      /\ resolveTarget(e[k]).message = "Unsupported target type: " \o e[k].targetType
      /\ error'.threw
      /\ Len(Routes(Emitted)) < k
      /\ \A i \in 1..Len(Emitted) : Emitted[i].id # RouteId(k - 1)
      /\ (AllSupported(SubSeq(e, 1, k - 1)) /\ Len(Routes(Emitted)) = k - 1) =>
           error'.message = "Unsupported target type: " \o e[k].targetType

(* C3: a route entry whose target kind is outside the four makes         *)
(* resolveTarget throw an error that names the kind, the call that       *)
(* carried the entry fails, and no Route is emitted for that entry,      *)
(* through the constructor and through addRouteTableEntries alike.       *)
C3_UnsupportedKindRejected ==
  [][/\ \A e \in AddedEntryLists :
          addRouteTableEntries(e) => C3_Rejected(e)
     /\ \A p \in RequiredProps \cup RouteProps :
          SubnetWithRouteTable(p) => C3_Rejected(EntriesOf(p))
    ]_vars

\* addRouteTableEntries met an unsupported kind after it had emitted a Route.
C3_Witness ==
  /\ lastOp = "addRouteTableEntries"
  /\ error = Error("Unsupported target type: vpn-gateway")
  /\ Len(Routes(children)) = 1

(* C4: when all the route entries have supported kinds, the constructor  *)
(* returns having emitted exactly Len(routeEntries) Routes, the i-th     *)
(* named by index i and carrying the i-th entry's destination and target *)
(* id and a reference to the construct's own RouteTable.                 *)
C4_RouteCountAndOrder ==
  (lastOp = "constructor" /\ AllSupported(EntriesOf(props))) =>
    LET e == EntriesOf(props)
        r == Routes(children)
    IN  /\ status = "built"
        /\ Len(r) = Len(e)
        /\ Len(RouteTables(children)) = 1
        /\ \A i \in 1..Len(e) :
             /\ r[i].id = "Route" \o ToString(i - 1)
             /\ r[i].properties.destinationCidrBlock = e[i].destinationCidr
             /\ \E f \in TargetFields \cap DOMAIN r[i].properties :
                  r[i].properties[f] = e[i].targetId
             /\ r[i].properties.routeTableId = Ref(RouteTables(children)[1].id)

\* The constructor emitted two Routes of different kinds and destinations.
C4_Witness ==
  /\ lastOp = "constructor"
  /\ status = "built"
  /\ Len(EntriesOf(props)) = 2
  /\ Len(Routes(children)) = 2
  /\ EntriesOf(props)[1].targetType # EntriesOf(props)[2].targetType
  /\ EntriesOf(props)[1].destinationCidr # EntriesOf(props)[2].destinationCidr

\* What C5 says of a call that was handed the route entries e.
C5_OneTarget(e) ==
  LET r == Routes(Emitted)
  IN  \A j \in 1..Len(r) :
        /\ j <= Len(e)
        /\ e[j].targetType \in TargetTypes
        /\ TargetFields \cap DOMAIN r[j].properties = {TargetFieldOf[e[j].targetType]}
        /\ r[j].properties[TargetFieldOf[e[j].targetType]] = e[j].targetId

(* C5: every Route a call emits has exactly one of the four target       *)
(* fields, the one its entry's target kind selects, holding the entry's  *)
(* target id.                                                            *)
C5_TargetExclusivity ==
  [][/\ \A e \in AddedEntryLists :
          addRouteTableEntries(e) => C5_OneTarget(e)
     /\ \A p \in RequiredProps \cup RouteProps :
          SubnetWithRouteTable(p) => C5_OneTarget(EntriesOf(p))
    ]_vars

\* A Route to a NAT gateway was added after construction.
C5_Witness ==
  /\ lastOp = "addRouteTableEntries"
  /\ \E i \in 1..Len(children) :
       /\ children[i].type = "AWS::EC2::Route"
       /\ "natGatewayId" \in DOMAIN children[i].properties
       /\ children[i].properties.natGatewayId = "nat-456"

(* C6: a constructor that returns has emitted exactly one Subnet, one    *)
(* RouteTable and one Association that refers to that Subnet and that    *)
(* RouteTable; the Subnet carries vpcId, cidrBlock and availabilityZone  *)
(* and the RouteTable vpcId as given; with routeEntries absent or empty  *)
(* there is no Route.                                                    *)
C6_BaseGraphShape ==
  (lastOp = "constructor" /\ status = "built") =>
    /\ Len(Subnets(children)) = 1
    /\ Len(RouteTables(children)) = 1
    /\ Len(Associations(children)) = 1
    /\ LET subnet == Subnets(children)[1]
           routeTable == RouteTables(children)[1]
           assoc == Associations(children)[1]
       IN  /\ assoc.properties.subnetId = Ref(subnet.id)
           /\ assoc.properties.routeTableId = Ref(routeTable.id)
           /\ subnet.id # routeTable.id
           /\ subnet.properties.vpcId = props.vpcId
           /\ subnet.properties.cidrBlock = props.cidrBlock
           /\ subnet.properties.availabilityZone = props.availabilityZone
           /\ routeTable.properties.vpcId = props.vpcId
    /\ EntriesOf(props) = << >> => Len(children) = 3

\* The constructor returned without routeEntries.
C6_Witness ==
  /\ lastOp = "constructor"
  /\ status = "built"
  /\ ~props.routeEntries.defined
  /\ Len(children) = 3

(* C7, as stated: a constructor given an empty vpcId, cidrBlock or       *)
(* availabilityZone fails and emits nothing.                             *)
C7_EmptyRequiredFails ==
  (lastOp = "constructor" /\ SomeRequiredEmpty(props)) =>
    (status = "failed" /\ children = << >>)

(* C7, amended: the constructor does not check the required strings: an  *)
(* empty vpcId, cidrBlock or availabilityZone is no error, and the       *)
(* Subnet and the RouteTable carry the empty value as given.             *)
C7_EmptyRequiredPassedThrough ==
  (lastOp = "constructor" /\ SomeRequiredEmpty(props)) =>
    /\ AllSupported(EntriesOf(props)) => status = "built"
    /\ Len(Subnets(children)) = 1
    /\ Len(RouteTables(children)) = 1
    /\ Subnets(children)[1].properties.vpcId = props.vpcId
    /\ Subnets(children)[1].properties.cidrBlock = props.cidrBlock
    /\ Subnets(children)[1].properties.availabilityZone = props.availabilityZone
    /\ RouteTables(children)[1].properties.vpcId = props.vpcId

\* The constructor returned for props whose three required strings are empty.
C7_Witness ==
  /\ lastOp = "constructor"
  /\ status = "built"
  /\ props.vpcId = ""
  /\ props.cidrBlock = ""
  /\ props.availabilityZone = ""
  /\ Len(Subnets(children)) = 1

\* tags is what the tag object given (or not given) converts to: absent for
\* absent, else one {key, value} per property, in property order.
IsTagListOf(tags, given) ==
  IF ~given.defined
    THEN tags = Undefined
    ELSE /\ tags.defined
         /\ Len(tags.value) = Len(given.value)
         /\ \A i \in 1..Len(given.value) :
              /\ tags.value[i].key = given.value[i][1]
              /\ tags.value[i].value = given.value[i][2]

(* C8: the Subnet's tags are the conversion of subnetTags and the        *)
(* RouteTable's the conversion of routeTableTags: absent when the object *)
(* is absent, an empty list (not absent) for an empty object, and one    *)
(* {key, value} per property otherwise, none added, dropped or doubled.  *)
C8_LabelConversion ==
  (lastOp = "constructor" /\ status = "built") =>
    /\ IsTagListOf(Subnets(children)[1].properties.tags, props.subnetTags)
    /\ IsTagListOf(RouteTables(children)[1].properties.tags, props.routeTableTags)

\* An empty subnetTags object beside a routeTableTags object of two tags.
C8_Witness ==
  /\ lastOp = "constructor"
  /\ status = "built"
  /\ props.subnetTags = Defined(<< >>)
  /\ props.routeTableTags.defined
  /\ Len(props.routeTableTags.value) = 2
  /\ Subnets(children)[1].properties.tags = Defined(<< >>)
  /\ Len(RouteTables(children)[1].properties.tags.value) = 2

(* C9: every Subnet in the graph has mapPublicIpOnLaunch false, after    *)
(* the constructor and after any calls of addRouteTableEntries.          *)
C9_PublicIpFlagFalse ==
  \A i \in 1..Len(children) :
    children[i].type = "AWS::EC2::Subnet" =>
      children[i].properties.mapPublicIpOnLaunch = FALSE

\* A Subnet in the graph after routes were added.
C9_Witness ==
  /\ lastOp = "addRouteTableEntries"
  /\ Len(Subnets(children)) = 1
  /\ Len(Routes(children)) >= 1

\* Props the specification calls valid.
ValidSpec(p) == ~SomeRequiredEmpty(p) /\ AllSupported(EntriesOf(p))

====
